---- MODULE Spec2Model ----
(***************************************************************************)
(* PDF Audio Summarizer: the request pipeline of streamlit_app.py          *)
(* (extraction -> summarization -> synthesis) and the two API clients      *)
(* (utils/claude_client.py, utils/elevenlabs_client.py).                   *)
(*                                                                         *)
(* Strings.  A Python str is modelled by its run-length encoding: a        *)
(* sequence of runs [c |-> character, n |-> repetitions >= 1] in which     *)
(* adjacent runs carry different characters.  The encoding is a bijection  *)
(* between strings and such sequences, so len, slicing, rfind, strip and   *)
(* + are computed exactly, and the limits of the code (5000 characters,    *)
(* 100000 tokens) keep their real values.                                  *)
(***************************************************************************)
EXTENDS Integers, Sequences, FiniteSets

VARIABLES
    pc,             \* position of the caller (process_pdf_to_audio, or a direct client call)
    call,           \* the direct client call under way: [op, text, max_chars, result]
    file_cursor,    \* read cursor of uploaded_file
    extraction,     \* history of extract_pdf_text: calls made, cursor seen, outcomes
    pdf_text,       \* process_pdf_to_audio: pdf_text
    summary,        \* process_pdf_to_audio: summary
    audio_file,     \* process_pdf_to_audio: audio_file
    st_errors,      \* st.error messages shown, in order
    gs,             \* frame of ClaudeProcessor.generate_summary
    ga,             \* frame of ElevenLabsProcessor.generate_audio
    claude_thread,  \* worker thread of asyncio.to_thread(self._make_sync_api_call, prompt)
    eleven_thread,  \* worker thread of asyncio.to_thread(self._generate_sync, processed_text)
    claude_calls,   \* number of client.messages.create calls made
    eleven_calls,   \* number of client.text_to_speech.convert calls made
    stages          \* stages of the request started so far, in order

vars == <<pc, call, file_cursor, extraction, pdf_text, summary, audio_file, st_errors,
          gs, ga, claude_thread, eleven_thread, claude_calls, eleven_calls, stages>>

----------------------------------------------------------------------------
(* Bounds of the model *)

\* most runs of an input text
MaxRuns == 4
\* input texts have their run boundaries within Delta of the limits the code tests
Delta == 1
\* most pages of an uploaded PDF
MaxPages == 2

(* Constants of the program *)

max_input_tokens == 100000
PromptBuffer == 1000
CharsPerToken == 4
DefaultMaxChars == 5000
target_minutes == 3
WordsPerMinute == 150

----------------------------------------------------------------------------
(* Python str operations on run-length encoded strings *)

EmptyStr == <<>>

\* str.isspace() of one character, as str.strip() uses it
IsSpace(c) == c \in {" ", "\n"}

Run(c, n) == [c |-> c, n |-> n]

\* a well-formed encoding: runs of at least one character, adjacent runs differ
IsStr(s) ==
    /\ \A i \in 1..Len(s) : s[i].n >= 1
    /\ \A i \in 1..(Len(s) - 1) : s[i].c # s[i + 1].c

RECURSIVE StrLen(_)
\* len(s)
StrLen(s) ==
    IF s = <<>> THEN 0
    ELSE IF Len(s) = 1 THEN s[1].n
    ELSE LET half == Len(s) \div 2
         IN  StrLen(SubSeq(s, 1, half)) + StrLen(SubSeq(s, half + 1, Len(s)))

RECURSIVE Slice(_, _)
\* s[:k] for k >= 0
Slice(s, k) ==
    IF k <= 0 \/ s = <<>> THEN <<>>
    ELSE IF s[1].n >= k THEN <<Run(s[1].c, k)>>
    ELSE <<s[1]>> \o Slice(Tail(s), k - s[1].n)

SetMax(S) == CHOOSE x \in S : \A y \in S : y <= x

\* s.rfind(c * m): the highest index at which m consecutive characters c start, or -1
RFind(s, c, m) ==
    LET hits == {i \in 1..Len(s) : s[i].c = c /\ s[i].n >= m}
    IN  IF hits = {} THEN -1
        ELSE StrLen(SubSeq(s, 1, SetMax(hits))) - m

RECURSIVE LStrip(_)
LStrip(s) == IF s # <<>> /\ IsSpace(s[1].c) THEN LStrip(Tail(s)) ELSE s

RECURSIVE RStrip(_)
RStrip(s) ==
    IF s # <<>> /\ IsSpace(s[Len(s)].c) THEN RStrip(SubSeq(s, 1, Len(s) - 1)) ELSE s

\* s.strip()
Strip(s) == RStrip(LStrip(s))

\* s + t
Concat(s, t) ==
    IF s = <<>> THEN t
    ELSE IF t = <<>> THEN s
    ELSE IF s[Len(s)].c = t[1].c
         THEN SubSeq(s, 1, Len(s) - 1) \o <<Run(t[1].c, s[Len(s)].n + t[1].n)>> \o Tail(t)
         ELSE s \o t

\* len(s.split()): the number of maximal groups of non-whitespace characters
WordCount(s) ==
    Cardinality({i \in 1..Len(s) :
        /\ ~IsSpace(s[i].c)
        /\ (i = 1 \/ IsSpace(s[i - 1].c))})

----------------------------------------------------------------------------
(* Results of calls: a value, or the exception raised *)

Returned(v) == [exc |-> "none", val |-> v, cause |-> "none"]
Raised(e) == [exc |-> e, val |-> <<>>, cause |-> "none"]
RaisedFrom(e, cause) == [exc |-> e, val |-> <<>>, cause |-> cause]
NoResult == [exc |-> "pending", val |-> <<>>, cause |-> "none"]

----------------------------------------------------------------------------
(* utils/claude_client.py: the token-budget guard *)

estimate_tokens(text) == StrLen(text) \div CharsPerToken

\* mutant: the prompt buffer is forgotten when the character limit is computed
truncate_pdf_content_no_buffer(text) ==
    LET estimated_tokens == estimate_tokens(text)
        available_tokens == max_input_tokens - PromptBuffer
    IN  IF estimated_tokens <= available_tokens THEN text
        ELSE LET char_limit == max_input_tokens * CharsPerToken
                 truncated == Slice(text, char_limit)
                 last_paragraph == RFind(truncated, "\n", 2)
             IN  IF 10 * last_paragraph > 8 * char_limit
                 THEN Slice(truncated, last_paragraph)
                 ELSE truncated

\* mutant: the break-point test is not strict
truncate_pdf_content_ge(text) ==
    LET estimated_tokens == estimate_tokens(text)
        available_tokens == max_input_tokens - PromptBuffer
    IN  IF estimated_tokens <= available_tokens THEN text
        ELSE LET char_limit == available_tokens * CharsPerToken
                 truncated == Slice(text, char_limit)
                 last_paragraph == RFind(truncated, "\n", 2)
             IN  IF 10 * last_paragraph >= 8 * char_limit
                 THEN Slice(truncated, last_paragraph)
                 ELSE truncated

truncate_pdf_content(text) ==
    LET estimated_tokens == estimate_tokens(text)
        available_tokens == max_input_tokens - PromptBuffer
    IN  IF estimated_tokens <= available_tokens THEN text
        ELSE LET char_limit == available_tokens * CharsPerToken
                 truncated == Slice(text, char_limit)
                 last_paragraph == RFind(truncated, "\n", 2)
             IN  \* last_paragraph > char_limit * 0.8
                 IF 10 * last_paragraph > 8 * char_limit
                 THEN Slice(truncated, last_paragraph)
                 ELSE truncated

----------------------------------------------------------------------------
(* utils/elevenlabs_client.py: the length guard *)

\* mutant: the slice keeps one character too many
validate_text_length_off_by_one(text, max_chars) ==
    IF Strip(text) = EmptyStr THEN Raised("ValueError")
    ELSE IF StrLen(text) <= max_chars THEN Returned(text)
    ELSE LET truncated == Slice(text, max_chars + 1)
             last_sentence == RFind(truncated, ".", 1)
         IN  IF 10 * last_sentence > 8 * max_chars
             THEN Returned(Slice(truncated, last_sentence + 1))
             ELSE Returned(truncated)

\* mutant: the length test is strict, so a text exactly at the limit is truncated
validate_text_length_strict(text, max_chars) ==
    IF Strip(text) = EmptyStr THEN Raised("ValueError")
    ELSE IF StrLen(text) < max_chars THEN Returned(text)
    ELSE LET truncated == Slice(text, max_chars)
             last_sentence == RFind(truncated, ".", 1)
         IN  IF 10 * last_sentence > 8 * max_chars
             THEN Returned(Slice(truncated, last_sentence + 1))
             ELSE Returned(truncated)

\* mutant: the cut drops the sentence-ending period
validate_text_length_drops_period(text, max_chars) ==
    IF Strip(text) = EmptyStr THEN Raised("ValueError")
    ELSE IF StrLen(text) <= max_chars THEN Returned(text)
    ELSE LET truncated == Slice(text, max_chars)
             last_sentence == RFind(truncated, ".", 1)
         IN  IF 10 * last_sentence > 8 * max_chars
             THEN Returned(Slice(truncated, last_sentence))
             ELSE Returned(truncated)

validate_text_length(text, max_chars) ==
    IF Strip(text) = EmptyStr THEN Raised("ValueError")
    ELSE IF StrLen(text) <= max_chars THEN Returned(text)
    ELSE LET truncated == Slice(text, max_chars)
             last_sentence == RFind(truncated, ".", 1)
         IN  \* last_sentence > max_chars * 0.8
             IF 10 * last_sentence > 8 * max_chars
             THEN Returned(Slice(truncated, last_sentence + 1))
             ELSE Returned(truncated)

----------------------------------------------------------------------------
(* Input texts *)

\* characters of input texts: a letter, a sentence end, a line break
InputChars == {"a", ".", "\n"}

\* the values within Delta of x, and one more above (a two-character match needs it)
Near(x) == {y \in (x - Delta)..(x + Delta + 1) : y >= 1}

RECURSIVE SortedSeq(_)
SortedSeq(S) ==
    IF S = {} THEN <<>>
    ELSE LET m == CHOOSE x \in S : \A y \in S : x <= y
         IN  <<m>> \o SortedSeq(S \ {m})

\* the string whose runs end at the offsets ends[1] < ends[2] < ... and carry chars[i]
StrOf(ends, chars) ==
    [i \in 1..Len(ends) |->
        Run(chars[i], ends[i] - (IF i = 1 THEN 0 ELSE ends[i - 1]))]

\* the sets of run ends of the strings of at most MaxRuns runs that end at offsets in cuts
CutSets(cuts) == {T \in SUBSET cuts : Cardinality(T) <= MaxRuns}

\* the characters of k runs: adjacent runs differ
CharSeqs(k) ==
    {f \in [1..k -> InputChars] : \A i \in 1..(k - 1) : f[i] # f[i + 1]}

\* inputs of truncate_pdf_content: lengths around the character budget and around the
\* largest length the token estimate lets through, breaks around 80% of the budget
TruncateCuts ==
    LET W == (max_input_tokens - PromptBuffer) * CharsPerToken
    IN  {1} \cup Near((8 * W) \div 10) \cup Near(W) \cup Near(W + CharsPerToken - 1)

\* limits validate_text_length is called with: its default, and a small one
MaxCharsInputs == {DefaultMaxChars, 7}

ValidateCuts(max_chars) ==
    {1} \cup Near((8 * max_chars) \div 10) \cup Near(max_chars)

----------------------------------------------------------------------------
(* State *)

NoCall == [op |-> "none", text |-> <<>>, max_chars |-> 0, result |-> NoResult]
NoFrame == [state |-> "none", text |-> <<>>, result |-> NoResult, warning |-> "none"]
IdleThread == [state |-> "idle", arg |-> <<>>, result |-> NoResult]
NoOutcome == [pages |-> <<>>, raises |-> FALSE]
NoExtraction ==
    [primary_calls |-> 0, secondary_calls |-> 0, seeks |-> 0, secondary_cursor |-> -1,
     primary |-> NoOutcome, secondary |-> NoOutcome, result |-> NoResult]

extractVars == <<file_cursor, extraction>>
pipeVars == <<pdf_text, summary, audio_file, st_errors, stages>>
claudeVars == <<gs, claude_thread, claude_calls>>
elevenVars == <<ga, eleven_thread, eleven_calls>>

InitCommon ==
    /\ call = NoCall
    /\ file_cursor = 0
    /\ extraction = NoExtraction
    /\ pdf_text = <<>>
    /\ summary = <<>>
    /\ audio_file = NoResult
    /\ st_errors = <<>>
    /\ gs = NoFrame
    /\ ga = NoFrame
    /\ claude_thread = IdleThread
    /\ eleven_thread = IdleThread
    /\ claude_calls = 0
    /\ eleven_calls = 0
    /\ stages = <<>>

----------------------------------------------------------------------------
(* utils/claude_client.py: generate_summary and its worker thread *)

\* the prompt: the target length and the paper content embedded in the fixed instructions
create_summary_prompt(text, minutes) ==
    [target_minutes |-> minutes, target_words |-> minutes * WordsPerMinute,
     content |-> text]

\* mutant: only the empty string is refused, whitespace passes
GenerateSummaryCall_no_strip(text, minutes) ==
    IF text = EmptyStr
    THEN /\ gs' = [state |-> "raised", text |-> text, result |-> Raised("ValueError"),
                   warning |-> "none"]
         /\ UNCHANGED <<claude_thread, claude_calls>>
    ELSE LET processed_content == truncate_pdf_content(text)
             prompt == create_summary_prompt(processed_content, minutes)
         IN  /\ gs' = [state |-> "awaiting", text |-> text, result |-> NoResult,
                       warning |-> "none"]
             /\ claude_thread' = [state |-> "running", arg |-> prompt,
                                  result |-> NoResult]
             /\ UNCHANGED claude_calls

\* generate_summary(pdf_text, target_minutes), up to its await of asyncio.to_thread
GenerateSummaryCall(text, minutes) ==
    IF Strip(text) = EmptyStr
    THEN /\ gs' = [state |-> "raised", text |-> text, result |-> Raised("ValueError"),
                   warning |-> "none"]
         /\ UNCHANGED <<claude_thread, claude_calls>>
    ELSE LET processed_content == truncate_pdf_content(text)
             prompt == create_summary_prompt(processed_content, minutes)
         IN  /\ gs' = [state |-> "awaiting", text |-> text, result |-> NoResult,
                       warning |-> "none"]
             /\ claude_thread' = [state |-> "running", arg |-> prompt,
                                  result |-> NoResult]
             /\ UNCHANGED claude_calls

\* a text of k one-letter words, single spaces between them
WordsText(k) == [i \in 1..(2 * k - 1) |-> Run(IF i % 2 = 1 THEN "a" ELSE " ", 1)]

\* the word counts on either side of 70% and of 130% of the target word count
ThresholdWordCounts ==
    LET target_words == target_minutes * WordsPerMinute
    IN  { (7 * target_words) \div 10 - 1, (7 * target_words) \div 10,
          (13 * target_words) \div 10, (13 * target_words) \div 10 + 1 }

\* texts the summarization service answers with: blank, short, longer than max_chars
ResponseTexts ==
    { EmptyStr,
      <<Run("\n", 1)>>,
      <<Run("\n", 1), Run("a", 2), Run(".", 1), Run("\n", 1)>>,
      <<Run("a", DefaultMaxChars - 1), Run(".", 1), Run("a", 1)>> }

\* answers of the word counts around the two thresholds of the length warning
ThresholdTexts == { WordsText(k) : k \in ThresholdWordCounts }

\* what client.messages.create does: a message of content blocks (val), or an error
ClaudeOutcomes ==
    { Returned(<<t>>) : t \in ResponseTexts }
        \cup { Returned(<<>>), Raised("APIError"), Raised("Exception") }

\* the outcomes drawn for a call: the answers of threshold length are drawn for the
\* direct calls of generate_summary, not inside the pipeline
ClaudeOutcomesOf(op) ==
    IF op = "generate_summary"
    THEN ClaudeOutcomes \cup { Returned(<<t>>) : t \in ThresholdTexts }
    ELSE ClaudeOutcomes

\* _make_sync_api_call(prompt), on the worker thread
ClaudeApiCall ==
    /\ claude_thread.state = "running"
    /\ claude_calls' = claude_calls + 1
    /\ \E outcome \in ClaudeOutcomesOf(call.op) :
         claude_thread' = [claude_thread EXCEPT !.state = "finished", !.result = outcome]
    /\ UNCHANGED <<pc, call, extractVars, pipeVars, gs, elevenVars>>

\* mutant: the two thresholds themselves are warned about
LengthWarning_inclusive(word_count, minutes) ==
    LET target_words == minutes * WordsPerMinute
    IN  IF 10 * word_count <= 7 * target_words THEN "shorter"
        ELSE IF 10 * word_count >= 13 * target_words THEN "longer"
        ELSE "none"

\* the warning generate_summary logs for a summary of word_count words
LengthWarning(word_count, minutes) ==
    LET target_words == minutes * WordsPerMinute
    IN  \* word_count < target_words * 0.7, word_count > target_words * 1.3
        IF 10 * word_count < 7 * target_words THEN "shorter"
        ELSE IF 10 * word_count > 13 * target_words THEN "longer"
        ELSE "none"

\* mutant: an error of the service is wrapped in a new error
GenerateSummaryResume_wraps ==
    /\ gs.state = "awaiting"
    /\ claude_thread.state = "finished"
    /\ claude_thread' = IdleThread
    /\ LET response == claude_thread.result
       IN  IF response.exc # "none"
           THEN gs' = [gs EXCEPT !.state = "raised",
                                 !.result = RaisedFrom("RuntimeError", response.exc)]
           ELSE IF response.val = <<>>
           THEN gs' = [gs EXCEPT !.state = "raised", !.result = Raised("IndexError")]
           ELSE LET text == Strip(response.val[1])
                IN  gs' = [gs EXCEPT !.state = "returned", !.result = Returned(text),
                                     !.warning = LengthWarning(WordCount(text),
                                                               claude_thread.arg.target_minutes)]
    /\ UNCHANGED <<pc, call, extractVars, pipeVars, claude_calls, elevenVars>>

\* generate_summary, from the completion of the worker thread to its return or raise
GenerateSummaryResume ==
    /\ gs.state = "awaiting"
    /\ claude_thread.state = "finished"
    /\ claude_thread' = IdleThread
    /\ LET response == claude_thread.result
       IN  IF response.exc # "none"
           THEN gs' = [gs EXCEPT !.state = "raised", !.result = response]
           ELSE IF response.val = <<>>
           THEN gs' = [gs EXCEPT !.state = "raised", !.result = Raised("IndexError")]
           ELSE LET text == Strip(response.val[1])
                IN  gs' = [gs EXCEPT !.state = "returned", !.result = Returned(text),
                                     !.warning = LengthWarning(WordCount(text),
                                                               claude_thread.arg.target_minutes)]
    /\ UNCHANGED <<pc, call, extractVars, pipeVars, claude_calls, elevenVars>>

----------------------------------------------------------------------------
(* utils/elevenlabs_client.py: generate_audio and its worker thread *)

\* generate_audio(text), up to its await of asyncio.to_thread
GenerateAudioCall(text) ==
    LET processed_text == validate_text_length(text, DefaultMaxChars)
    IN  IF processed_text.exc # "none"
        THEN /\ ga' = [state |-> "raised", text |-> text, result |-> processed_text,
                       warning |-> "none"]
             /\ UNCHANGED <<eleven_thread, eleven_calls>>
        ELSE /\ ga' = [state |-> "awaiting", text |-> text, result |-> NoResult,
                       warning |-> "none"]
             /\ eleven_thread' = [state |-> "running", arg |-> processed_text.val,
                                  result |-> NoResult]
             /\ UNCHANGED eleven_calls

RECURSIVE JoinChunks(_)
\* b''.join(audio)
JoinChunks(chunks) ==
    IF chunks = <<>> THEN <<>> ELSE chunks[1] \o JoinChunks(Tail(chunks))

\* what client.text_to_speech.convert does: the chunks of the audio (val), or an error
ConvertOutcomes ==
    { Returned(<<>>), Returned(<< <<1, 2>> >>), Returned(<< <<1>>, <<2>> >>),
      Raised("ApiError") }

\* _generate_sync(text), on the worker thread
ElevenApiCall ==
    /\ eleven_thread.state = "running"
    /\ eleven_calls' = eleven_calls + 1
    /\ \E outcome \in ConvertOutcomes :
         eleven_thread' =
             [eleven_thread EXCEPT
                 !.state = "finished",
                 !.result = IF outcome.exc = "none"
                            THEN Returned(JoinChunks(outcome.val))
                            ELSE outcome]
    /\ UNCHANGED <<pc, call, extractVars, pipeVars, claudeVars, ga>>

\* mutant: an error of the service is re-raised as it is, not wrapped
GenerateAudioResume_unwrapped ==
    /\ ga.state = "awaiting"
    /\ eleven_thread.state = "finished"
    /\ eleven_thread' = IdleThread
    /\ LET audio_data == eleven_thread.result
       IN  IF audio_data.exc = "none"
           THEN ga' = [ga EXCEPT !.state = "returned", !.result = audio_data]
           ELSE ga' = [ga EXCEPT !.state = "raised", !.result = audio_data]
    /\ UNCHANGED <<pc, call, extractVars, pipeVars, claudeVars, eleven_calls>>

\* generate_audio, from the completion of the worker thread to its return or raise
GenerateAudioResume ==
    /\ ga.state = "awaiting"
    /\ eleven_thread.state = "finished"
    /\ eleven_thread' = IdleThread
    /\ LET audio_data == eleven_thread.result
       IN  IF audio_data.exc = "none"
           THEN ga' = [ga EXCEPT !.state = "returned", !.result = audio_data]
           ELSE ga' = [ga EXCEPT !.state = "raised",
                                 !.result = RaisedFrom("RuntimeError", audio_data.exc)]
    /\ UNCHANGED <<pc, call, extractVars, pipeVars, claudeVars, eleven_calls>>

\* create_audio_file(audio_data, filename)
create_audio_file(audio_data, filename) ==
    Returned([name |-> filename, data |-> audio_data])

----------------------------------------------------------------------------
(* The clients called directly, on drawn inputs *)

InitClient == pc = "client" /\ InitCommon

\* ClaudeProcessor.truncate_pdf_content(pdf_text)
CallTruncate ==
    /\ pc = "client"
    /\ \E S \in CutSets(TruncateCuts) :
         \E chars \in CharSeqs(Cardinality(S)) :
           LET text == StrOf(SortedSeq(S), chars)
           IN  call' = [op |-> "truncate_pdf_content", text |-> text, max_chars |-> 0,
                        result |-> Returned(truncate_pdf_content(text))]
    /\ pc' = "client_done"
    /\ UNCHANGED <<extractVars, pipeVars, claudeVars, elevenVars>>

\* ElevenLabsProcessor.validate_text_length(text, max_chars)
CallValidate ==
    /\ pc = "client"
    /\ \E max_chars \in MaxCharsInputs :
         \E S \in CutSets(ValidateCuts(max_chars)) :
           \E chars \in CharSeqs(Cardinality(S)) :
             LET text == StrOf(SortedSeq(S), chars)
             IN  call' = [op |-> "validate_text_length", text |-> text,
                          max_chars |-> max_chars,
                          result |-> validate_text_length(text, max_chars)]
    /\ pc' = "client_done"
    /\ UNCHANGED <<extractVars, pipeVars, claudeVars, elevenVars>>

\* inputs of the direct calls of generate_summary and generate_audio: texts of up to
\* three characters, and texts one character over the synthesis limit
ClientCuts == {1, 2, 3, DefaultMaxChars + 1}

\* await ClaudeProcessor.generate_summary(text, target_minutes)
CallGenerateSummary ==
    /\ pc = "client"
    /\ \E S \in CutSets(ClientCuts) :
         \E chars \in CharSeqs(Cardinality(S)) :
           LET text == StrOf(SortedSeq(S), chars)
           IN  /\ call' = [op |-> "generate_summary", text |-> text, max_chars |-> 0,
                           result |-> NoResult]
               /\ GenerateSummaryCall(text, target_minutes)
    /\ pc' = "client_await"
    /\ UNCHANGED <<extractVars, pipeVars, elevenVars>>

\* await ElevenLabsProcessor.generate_audio(text)
CallGenerateAudio ==
    /\ pc = "client"
    /\ \E S \in CutSets(ClientCuts) :
         \E chars \in CharSeqs(Cardinality(S)) :
           LET text == StrOf(SortedSeq(S), chars)
           IN  /\ call' = [op |-> "generate_audio", text |-> text,
                           max_chars |-> DefaultMaxChars, result |-> NoResult]
               /\ GenerateAudioCall(text)
    /\ pc' = "client_await"
    /\ UNCHANGED <<extractVars, pipeVars, claudeVars>>

\* the fixed phrase of test_connection, "Testing connection."
TestPhrase ==
    <<Run("T", 1), Run("e", 1), Run("s", 1), Run("t", 1), Run("i", 1), Run("n", 1),
      Run("g", 1), Run(" ", 1), Run("c", 1), Run("o", 1), Run("n", 2), Run("e", 1),
      Run("c", 1), Run("t", 1), Run("i", 1), Run("o", 1), Run("n", 1), Run(".", 1)>>

\* mutant: an error of generate_audio leaves test_connection as it is
TestConnectionResult_propagates(test_audio) ==
    IF test_audio.exc = "none" THEN Returned(Len(test_audio.val) > 0) ELSE test_audio

\* what test_connection returns, from what its await of generate_audio gave
TestConnectionResult(test_audio) ==
    IF test_audio.exc = "none" THEN Returned(Len(test_audio.val) > 0) ELSE Returned(FALSE)

\* await ElevenLabsProcessor.test_connection(), up to its await of generate_audio
CallTestConnection ==
    /\ pc = "client"
    /\ call' = [op |-> "test_connection", text |-> TestPhrase,
                max_chars |-> DefaultMaxChars, result |-> NoResult]
    /\ GenerateAudioCall(TestPhrase)
    /\ pc' = "client_await"
    /\ UNCHANGED <<extractVars, pipeVars, claudeVars>>

\* test_connection, from the return or raise of generate_audio to its own return
TestConnectionResume ==
    /\ pc = "client_await"
    /\ call.op = "test_connection"
    /\ ga.state \in {"returned", "raised"}
    /\ call' = [call EXCEPT !.result = TestConnectionResult(ga.result)]
    /\ pc' = "client_done"
    /\ UNCHANGED <<extractVars, pipeVars, claudeVars, elevenVars>>

NextClient ==
    \/ CallTruncate
    \/ CallValidate
    \/ CallGenerateSummary
    \/ CallGenerateAudio
    \/ CallTestConnection
    \/ TestConnectionResume
    \/ ClaudeApiCall
    \/ GenerateSummaryResume
    \/ ElevenApiCall
    \/ GenerateAudioResume

SpecClient == InitClient /\ [][NextClient]_vars

----------------------------------------------------------------------------
(* streamlit_app.py: extract_pdf_text *)

\* what page.extract_text() gives for a page: nothing ("" or None), whitespace only,
\* text, text with whitespace around it
PageTexts ==
    { EmptyStr,
      <<Run("\n", 1)>>,
      <<Run("a", 1)>>,
      <<Run(" ", 1), Run("b", 1), Run("\n", 1)>> }

\* the texts of the pages a method gets through, in document order
PageLists == {<<>>} \cup UNION { [1..k -> PageTexts] : k \in 1..MaxPages }

\* what one extraction method does on the uploaded file: the texts of the pages it gets
\* through, and whether it then raises (on opening the file when pages is empty)
Outcomes == [pages : PageLists, raises : BOOLEAN]

\* positions of the read cursor of uploaded_file: the start, or past it
CursorPositions == {0, 1}

ParagraphBreak == <<Run("\n", 2)>>

RECURSIVE AccumulateText_reversed(_, _)
\* mutant: each page is put in front of the text gathered so far
AccumulateText_reversed(text, pages) ==
    IF pages = <<>> THEN text
    ELSE AccumulateText_reversed(
             IF pages[1] # EmptyStr
             THEN Concat(Concat(pages[1], ParagraphBreak), text)
             ELSE text,
             Tail(pages))

RECURSIVE AccumulateText(_, _)
\* for page in pages: if page_text: text += page_text + "\n\n"
AccumulateText(text, pages) ==
    IF pages = <<>> THEN text
    ELSE AccumulateText(
             IF pages[1] # EmptyStr
             THEN Concat(text, Concat(pages[1], ParagraphBreak))
             ELSE text,
             Tail(pages))

\* the value extract_pdf_text returns when both methods fail
NoneValue == [exc |-> "returned None", val |-> <<>>, cause |-> "none"]

\* mutant: the text gathered before the method raised is returned
ExtractionAttempt_keeps_partial(outcome) ==
    LET text == AccumulateText(EmptyStr, outcome.pages)
    IN  IF Strip(text) # EmptyStr THEN Returned(Strip(text))
        ELSE IF outcome.raises THEN Raised("Exception")
        ELSE Raised("no text")

\* one try block of extract_pdf_text: the text returned, or why control falls through
ExtractionAttempt(outcome) ==
    LET text == AccumulateText(EmptyStr, outcome.pages)
    IN  IF outcome.raises THEN Raised("Exception")
        ELSE IF Strip(text) # EmptyStr THEN Returned(Strip(text))
        ELSE Raised("no text")

\* mutant: the file pointer is not reset
SeekStart_missing(cursor) == cursor

\* uploaded_file.seek(0); on the uploaded in-memory file the call is taken to succeed
SeekStart(cursor) == 0

\* extract_pdf_text, method 1 (pdfplumber); process_pdf_to_audio goes on with the text
ExtractPrimary ==
    /\ pc = "extract"
    /\ stages' = Append(stages, "extraction")
    /\ \E outcome \in Outcomes, cursor \in CursorPositions :
         LET attempt == ExtractionAttempt(outcome)
         IN  /\ file_cursor' = cursor
             /\ extraction' = [extraction EXCEPT
                                  !.primary_calls = @ + 1,
                                  !.primary = outcome,
                                  !.result = IF attempt.exc = "none" THEN attempt ELSE @]
             /\ IF attempt.exc = "none"
                THEN pdf_text' = attempt.val /\ pc' = "summarize"
                ELSE UNCHANGED pdf_text /\ pc' = "extract_fallback"
    /\ UNCHANGED <<call, summary, audio_file, st_errors, claudeVars, elevenVars>>

\* mutant: method 2 goes on from the text method 1 had gathered (no text = "")
ExtractSecondary_keeps_text ==
    /\ pc = "extract_fallback"
    /\ \E outcome \in Outcomes, cursor \in CursorPositions :
         LET start == SeekStart(file_cursor)
             attempt == ExtractionAttempt([outcome EXCEPT
                                              !.pages = extraction.primary.pages \o @])
         IN  /\ file_cursor' = cursor
             /\ extraction' = [extraction EXCEPT
                                  !.seeks = @ + 1,
                                  !.secondary_calls = @ + 1,
                                  !.secondary_cursor = start,
                                  !.secondary = outcome,
                                  !.result = IF attempt.exc = "none" THEN attempt
                                             ELSE NoneValue]
             /\ IF attempt.exc = "none"
                THEN /\ pdf_text' = attempt.val
                     /\ pc' = "summarize"
                     /\ UNCHANGED st_errors
                ELSE /\ UNCHANGED pdf_text
                     /\ st_errors' = st_errors \o
                            <<"Failed to extract text from PDF. Please ensure it's a text-based PDF.",
                              "Failed to extract text from PDF">>
                     /\ pc' = "done"
    /\ UNCHANGED <<call, summary, audio_file, stages, claudeVars, elevenVars>>

\* extract_pdf_text, method 2 (PyPDF2) and the failure of both; process_pdf_to_audio
\* goes on with the text, or reports the failure and returns
ExtractSecondary ==
    /\ pc = "extract_fallback"
    /\ \E outcome \in Outcomes, cursor \in CursorPositions :
         LET start == SeekStart(file_cursor)
             attempt == ExtractionAttempt(outcome)
         IN  /\ file_cursor' = cursor
             /\ extraction' = [extraction EXCEPT
                                  !.seeks = @ + 1,
                                  !.secondary_calls = @ + 1,
                                  !.secondary_cursor = start,
                                  !.secondary = outcome,
                                  !.result = IF attempt.exc = "none" THEN attempt
                                             ELSE NoneValue]
             /\ IF attempt.exc = "none"
                THEN /\ pdf_text' = attempt.val
                     /\ pc' = "summarize"
                     /\ UNCHANGED st_errors
                ELSE /\ UNCHANGED pdf_text
                     /\ st_errors' = st_errors \o
                            <<"Failed to extract text from PDF. Please ensure it's a text-based PDF.",
                              "Failed to extract text from PDF">>
                     /\ pc' = "done"
    /\ UNCHANGED <<call, summary, audio_file, stages, claudeVars, elevenVars>>

----------------------------------------------------------------------------
(* streamlit_app.py: process_pdf_to_audio *)

\* step 2: summary = await self.claude_client.generate_summary(pdf_text, target_minutes)
PipelineSummarize ==
    /\ pc = "summarize"
    /\ stages' = Append(stages, "summarization")
    /\ GenerateSummaryCall(pdf_text, target_minutes)
    /\ pc' = "await_summary"
    /\ UNCHANGED <<call, extractVars, pdf_text, summary, audio_file, st_errors,
                   elevenVars>>

\* mutant: the pipeline goes on without awaiting the summary
PipelineAfterSummary_no_await ==
    /\ pc = "await_summary"
    /\ gs.state \in {"awaiting", "returned", "raised"}
    /\ IF gs.state = "raised"
       THEN /\ st_errors' = Append(st_errors, "Processing failed")
            /\ pc' = "done"
            /\ UNCHANGED summary
       ELSE /\ summary' = gs.result.val
            /\ pc' = "synthesize"
            /\ UNCHANGED st_errors
    /\ UNCHANGED <<call, extractVars, pdf_text, audio_file, stages, claudeVars,
                   elevenVars>>

\* mutant: an error of generate_summary is swallowed and the pipeline goes on
PipelineAfterSummary_continues ==
    /\ pc = "await_summary"
    /\ gs.state \in {"returned", "raised"}
    /\ summary' = gs.result.val
    /\ pc' = "synthesize"
    /\ UNCHANGED <<call, extractVars, pdf_text, audio_file, st_errors, stages, claudeVars,
                   elevenVars>>

\* generate_summary has returned (the summary is kept) or raised (except Exception:
\* the failure is reported, the request ends)
PipelineAfterSummary ==
    /\ pc = "await_summary"
    /\ gs.state \in {"returned", "raised"}
    /\ IF gs.state = "raised"
       THEN /\ st_errors' = Append(st_errors, "Processing failed")
            /\ pc' = "done"
            /\ UNCHANGED summary
       ELSE /\ summary' = gs.result.val
            /\ pc' = "synthesize"
            /\ UNCHANGED st_errors
    /\ UNCHANGED <<call, extractVars, pdf_text, audio_file, stages, claudeVars,
                   elevenVars>>

\* step 3: audio_file = await self.elevenlabs_client.text_to_audio_file(summary, filename)
PipelineSynthesize ==
    /\ pc = "synthesize"
    /\ stages' = Append(stages, "synthesis")
    /\ GenerateAudioCall(summary)
    /\ pc' = "await_audio"
    /\ UNCHANGED <<call, extractVars, pdf_text, summary, audio_file, st_errors,
                   claudeVars>>

\* text_to_audio_file has the audio (the file is made and offered for download) or
\* generate_audio raised (re-raised; except Exception: the failure is reported)
PipelineAfterAudio ==
    /\ pc = "await_audio"
    /\ ga.state \in {"returned", "raised"}
    /\ IF ga.state = "raised"
       THEN /\ st_errors' = Append(st_errors, "Processing failed")
            /\ UNCHANGED audio_file
       ELSE /\ audio_file' = create_audio_file(ga.result.val, "_summary.mp3")
            /\ UNCHANGED st_errors
    /\ pc' = "done"
    /\ UNCHANGED <<call, extractVars, pdf_text, summary, stages, claudeVars, elevenVars>>

\* asyncio.run(self.process_pdf_to_audio(uploaded_file, config)) is about to start
Init == pc = "extract" /\ InitCommon

Next ==
    \/ ExtractPrimary
    \/ ExtractSecondary
    \/ PipelineSummarize
    \/ ClaudeApiCall
    \/ GenerateSummaryResume
    \/ PipelineAfterSummary
    \/ PipelineSynthesize
    \/ ElevenApiCall
    \/ GenerateAudioResume
    \/ PipelineAfterAudio

Spec == Init /\ [][Next]_vars

----------------------------------------------------------------------------
(* Notions the claims are stated with, defined on the characters of a string *)

Min2(a, b) == IF a <= b THEN a ELSE b

\* r is a prefix of t
IsPrefixOf(r, t) ==
    \/ r = <<>>
    \/ /\ Len(r) <= Len(t)
       /\ \A i \in 1..(Len(r) - 1) : r[i] = t[i]
       /\ r[Len(r)].c = t[Len(r)].c
       /\ r[Len(r)].n <= t[Len(r)].n

\* the offset at which run i of s starts
RunStart(s, i) == StrLen(SubSeq(s, 1, i - 1))

\* the highest index p, with p + m <= limit, at which m consecutive characters c
\* start in s; -1 when there is none
LastMatch(s, c, m, limit) ==
    LET ends == { Min2(RunStart(s, i) + s[i].n, limit) :
                    i \in { j \in 1..Len(s) :
                              /\ s[j].c = c
                              /\ Min2(RunStart(s, j) + s[j].n, limit) - RunStart(s, j) >= m } }
    IN  IF ends = {} THEN -1 ELSE SetMax(ends) - m

IsBlank(s) == \A i \in 1..Len(s) : IsSpace(s[i].c)

\* the character budget of truncate_pdf_content
CharBudget == (max_input_tokens - PromptBuffer) * CharsPerToken

TruncateCalled == call.op = "truncate_pdf_content"
ValidateCalled == call.op = "validate_text_length"

\* the stages of a request, in pipeline order
StageOrder == <<"extraction", "summarization", "synthesis">>

\* a method yielded no non-whitespace text, or raised
MethodFailed(outcome) ==
    \/ outcome.raises
    \/ \A i \in 1..Len(outcome.pages) : IsBlank(outcome.pages[i])

\* extract_pdf_text has returned
ExtractionOver == pc \notin {"extract", "extract_fallback"}

----------------------------------------------------------------------------
(* C1 *)

\* C1: within one request the stages start in the order extraction, summarization,
\* synthesis, each at most once; an external call runs on its worker thread only while
\* process_pdf_to_audio waits for it; synthesis starts only after generate_summary has
\* returned the summary and its worker thread is finished; the two worker threads are
\* never busy at the same time.
C1_Sequential ==
    /\ stages = SubSeq(StageOrder, 1, Len(stages))
    /\ claude_thread.state # "idle" =>
         /\ pc = "await_summary"
         /\ gs.state = "awaiting"
         /\ eleven_thread.state = "idle"
         /\ Len(stages) = 2
    /\ eleven_thread.state # "idle" =>
         /\ pc = "await_audio"
         /\ ga.state = "awaiting"
         /\ claude_thread.state = "idle"
    /\ Len(stages) >= 2 => extraction.result = Returned(pdf_text)
    /\ Len(stages) = 3 =>
         /\ gs.state = "returned"
         /\ gs.result = Returned(summary)
         /\ claude_thread.state = "idle"
         /\ claude_calls = 1
    /\ claude_calls > 0 => Len(stages) >= 2
    /\ eleven_calls > 0 => Len(stages) = 3
    /\ pc = "done" => (claude_thread.state = "idle" /\ eleven_thread.state = "idle")

\* the synthesis call is running on its worker thread, the summary received
C1_Witness ==
    /\ eleven_thread.state = "running"
    /\ gs.state = "returned"
    /\ claude_calls = 1

----------------------------------------------------------------------------
(* C2 *)

\* C2: called with a blank text (empty or whitespace only), generate_summary and
\* generate_audio each raise the empty-input error (ValueError) and the external
\* service is not called: no worker thread is started, no call is counted.
C2_BlankInput ==
    /\ (call.op = "generate_summary" /\ IsBlank(call.text)) =>
         /\ gs.state = "raised"
         /\ gs.result = Raised("ValueError")
         /\ claude_thread.state = "idle"
         /\ claude_calls = 0
    /\ (call.op = "generate_audio" /\ IsBlank(call.text)) =>
         /\ ga.state = "raised"
         /\ ga.result = Raised("ValueError")
         /\ eleven_thread.state = "idle"
         /\ eleven_calls = 0

\* generate_summary was called with a whitespace-only text
C2_Witness ==
    /\ call.op = "generate_summary"
    /\ call.text # EmptyStr
    /\ IsBlank(call.text)
    /\ gs.state = "raised"

----------------------------------------------------------------------------
(* C3 *)

\* C3: when the primary method raised or yielded no non-whitespace text, extract_pdf_text
\* has invoked the secondary method exactly once, with the read cursor reset to the
\* start, and if the secondary method yielded non-blank text (and did not raise) that
\* text, stripped, is what is returned; the secondary method is never invoked twice.
C3_Fallback ==
    /\ extraction.secondary_calls <= 1
    /\ extraction.secondary_calls = 1 => extraction.secondary_cursor = 0
    /\ (ExtractionOver /\ MethodFailed(extraction.primary)) =>
         /\ extraction.secondary_calls = 1
         /\ extraction.seeks = 1
         /\ ~MethodFailed(extraction.secondary) =>
              /\ extraction.result =
                     Returned(Strip(AccumulateText(EmptyStr, extraction.secondary.pages)))
              /\ pdf_text = extraction.result.val

\* the primary method raised after reading text, and the secondary method's text was returned
C3_Witness ==
    /\ ExtractionOver
    /\ extraction.primary.raises
    /\ ~IsBlank(AccumulateText(EmptyStr, extraction.primary.pages))
    /\ extraction.secondary_calls = 1
    /\ extraction.result.exc = "none"

----------------------------------------------------------------------------
(* C4 *)

\* C4: extract_pdf_text returns None exactly when the primary and the secondary method
\* each raised or yielded no non-whitespace text; otherwise it returns a non-blank text;
\* no method is tried a second time.
C4_ExtractionFailure ==
    /\ extraction.primary_calls <= 1
    /\ extraction.secondary_calls <= 1
    /\ ExtractionOver =>
         /\ extraction.primary_calls = 1
         /\ (extraction.result = NoneValue) <=>
                /\ MethodFailed(extraction.primary)
                /\ extraction.secondary_calls = 1
                /\ MethodFailed(extraction.secondary)
         /\ extraction.result # NoneValue =>
                /\ extraction.result.exc = "none"
                /\ ~IsBlank(extraction.result.val)

\* both methods failed, the secondary by raising after it had read text
C4_Witness ==
    /\ ExtractionOver
    /\ extraction.result = NoneValue
    /\ extraction.secondary.raises
    /\ ~IsBlank(AccumulateText(EmptyStr, extraction.secondary.pages))

----------------------------------------------------------------------------
(* C5 *)

\* C5: a failed stage ends the request: after a failed extraction nothing else is
\* invoked; after an error of generate_summary the synthesis is not invoked; after an
\* error of text_to_audio_file no audio file exists; no method, stage or external call
\* is made twice.
C5_FailureTerminal ==
    /\ extraction.primary_calls <= 1
    /\ extraction.secondary_calls <= 1
    /\ claude_calls <= 1
    /\ eleven_calls <= 1
    /\ stages = SubSeq(StageOrder, 1, Len(stages))
    /\ extraction.result = NoneValue =>
         /\ pc = "done"
         /\ stages = <<"extraction">>
         /\ gs = NoFrame /\ ga = NoFrame
         /\ claude_calls = 0 /\ eleven_calls = 0
         /\ audio_file = NoResult
    /\ gs.state = "raised" =>
         /\ pc \in {"await_summary", "done"}
         /\ Len(stages) = 2
         /\ ga = NoFrame
         /\ claude_thread.state = "idle"
         /\ eleven_calls = 0
         /\ audio_file = NoResult
    /\ ga.state = "raised" =>
         /\ pc \in {"await_audio", "done"}
         /\ eleven_thread.state = "idle"
         /\ audio_file = NoResult
    /\ audio_file # NoResult =>
         /\ pc = "done"
         /\ gs.state = "returned"
         /\ ga.state = "returned"
         /\ audio_file = create_audio_file(ga.result.val, "_summary.mp3")

\* the request has ended on an error of the summarization service
C5_Witness ==
    /\ pc = "done"
    /\ gs.state = "raised"
    /\ gs.result.exc = "APIError"
    /\ claude_calls = 1

----------------------------------------------------------------------------
(* C6 *)

\* C6 as stated: the text truncate_pdf_content returns is never longer than the
\* character budget 4 * (max_input_tokens - 1000).
C6_Original_CharBudget ==
    TruncateCalled => StrLen(call.result.val) <= CharBudget

\* C6, amended: the text truncate_pdf_content returns never has more estimated tokens
\* (len // 4) than max_input_tokens - 1000, so it is at most 4 * (max_input_tokens -
\* 1000) + 3 characters long; a text that was cut is within the character budget.
C6_TokenBudget ==
    TruncateCalled =>
        /\ StrLen(call.result.val) \div CharsPerToken <= max_input_tokens - PromptBuffer
        /\ StrLen(call.result.val) <= CharBudget + CharsPerToken - 1
        /\ call.result.val # call.text => StrLen(call.result.val) <= CharBudget

\* a text over the budget was cut to exactly the budget
C6_Witness ==
    /\ TruncateCalled
    /\ StrLen(call.text) > CharBudget + CharsPerToken - 1
    /\ StrLen(call.result.val) = CharBudget

----------------------------------------------------------------------------
(* C7 *)

\* C7: for a non-blank text, validate_text_length returns a text of at most max_chars
\* characters; a text of exactly max_chars characters comes back as it is, one of
\* max_chars + 1 characters comes back cut, to at most max_chars characters.
C7_LengthGuard ==
    (ValidateCalled /\ ~IsBlank(call.text)) =>
        /\ call.result.exc = "none"
        /\ StrLen(call.result.val) <= call.max_chars
        /\ StrLen(call.text) = call.max_chars => call.result.val = call.text
        /\ StrLen(call.text) = call.max_chars + 1 =>
             /\ call.result.val # call.text
             /\ StrLen(call.result.val) <= call.max_chars

\* a text of 5001 characters was cut
C7_Witness ==
    /\ ValidateCalled
    /\ call.max_chars = DefaultMaxChars
    /\ StrLen(call.text) = DefaultMaxChars + 1
    /\ call.result.exc = "none"
    /\ StrLen(call.result.val) = DefaultMaxChars

----------------------------------------------------------------------------
(* C8 *)

\* C8 as stated: both guards return a text within the limit unchanged, and applied to
\* their own output return that output, for every non-blank input.
C8_Original_Idempotent ==
    /\ TruncateCalled =>
         /\ estimate_tokens(call.text) <= max_input_tokens - PromptBuffer =>
              call.result.val = call.text
         /\ truncate_pdf_content(call.result.val) = call.result.val
    /\ (ValidateCalled /\ ~IsBlank(call.text)) =>
         /\ StrLen(call.text) <= call.max_chars => call.result = Returned(call.text)
         /\ validate_text_length(call.result.val, call.max_chars) = call.result

\* C8, amended: both guards return a text within the limit unchanged;
\* truncate_pdf_content applied to its own output returns that output;
\* validate_text_length applied to its own output returns that output when the output
\* is not blank, and raises the empty-input error when it is (the first max_chars
\* characters of the input were all whitespace).
C8_Idempotent ==
    /\ TruncateCalled =>
         /\ estimate_tokens(call.text) <= max_input_tokens - PromptBuffer =>
              call.result.val = call.text
         /\ truncate_pdf_content(call.result.val) = call.result.val
    /\ (ValidateCalled /\ ~IsBlank(call.text)) =>
         /\ StrLen(call.text) <= call.max_chars => call.result = Returned(call.text)
         /\ ~IsBlank(call.result.val) =>
              validate_text_length(call.result.val, call.max_chars) = call.result
         /\ IsBlank(call.result.val) =>
              validate_text_length(call.result.val, call.max_chars) = Raised("ValueError")

\* a text was cut by validate_text_length to a non-blank text
C8_Witness ==
    /\ ValidateCalled
    /\ call.result.exc = "none"
    /\ call.result.val # call.text
    /\ ~IsBlank(call.result.val)

----------------------------------------------------------------------------
(* C9 *)

\* C9: when validate_text_length cuts a text longer than max_chars, and the last
\* period among the first max_chars characters is at an index greater than 80% of
\* max_chars, the result is the text up to and including that period; otherwise the
\* result is the first max_chars characters.
C9_SentenceCut ==
    (ValidateCalled /\ ~IsBlank(call.text) /\ StrLen(call.text) > call.max_chars) =>
        LET p == LastMatch(call.text, ".", 1, call.max_chars)
            r == call.result.val
        IN  /\ call.result.exc = "none"
            /\ IsPrefixOf(r, call.text)
            /\ 10 * p > 8 * call.max_chars =>
                 /\ StrLen(r) = p + 1
                 /\ r[Len(r)].c = "."
            /\ ~(10 * p > 8 * call.max_chars) => StrLen(r) = call.max_chars

\* a text was cut at a period before the limit
C9_Witness ==
    /\ ValidateCalled
    /\ call.result.exc = "none"
    /\ StrLen(call.text) > call.max_chars
    /\ StrLen(call.result.val) < call.max_chars
    /\ call.result.val[Len(call.result.val)].c = "."

----------------------------------------------------------------------------
(* C10 *)

\* C10: when truncate_pdf_content truncates (len // 4 > max_input_tokens - 1000), with
\* W = 4 * (max_input_tokens - 1000): if the last blank line that lies within the first
\* W characters starts at an index greater than 80% of W, the result is the text before
\* it; otherwise the result is the first W characters.
C10_ParagraphCut ==
    (TruncateCalled /\ estimate_tokens(call.text) > max_input_tokens - PromptBuffer) =>
        LET p == LastMatch(call.text, "\n", 2, CharBudget)
            r == call.result.val
        IN  /\ IsPrefixOf(r, call.text)
            /\ StrLen(r) = IF 10 * p > 8 * CharBudget THEN p ELSE CharBudget

\* a text was cut at a blank line
C10_Witness ==
    /\ TruncateCalled
    /\ estimate_tokens(call.text) > max_input_tokens - PromptBuffer
    /\ StrLen(call.result.val) < CharBudget
    /\ 10 * StrLen(call.result.val) > 8 * CharBudget

----------------------------------------------------------------------------
(* C11 *)

\* C11: called with a non-blank text, generate_summary calls the summarization service
\* exactly once: no call before the worker thread runs, one from then on, never a
\* second; when the service call fails, generate_summary raises that same error, not
\* wrapped or replaced, and makes no further call.
C11_SummaryCallOnce ==
    /\ []((call.op = "generate_summary" /\ ~IsBlank(call.text)) =>
            /\ claude_calls <= 1
            /\ gs.state = "awaiting" =>
                 claude_calls = (IF claude_thread.state = "finished" THEN 1 ELSE 0)
            /\ gs.state \in {"returned", "raised"} =>
                 /\ claude_calls = 1
                 /\ claude_thread.state = "idle")
    /\ [][(/\ gs.state = "awaiting"
           /\ gs'.state # "awaiting"
           /\ claude_thread.result.exc # "none")
          => /\ gs'.state = "raised"
             /\ gs'.result = claude_thread.result
             /\ gs'.result.cause = "none"
             /\ claude_calls' = claude_calls
             /\ claude_thread'.state = "idle"]_vars

\* generate_summary, called with a non-blank text, has raised the error of the service
C11_Witness ==
    /\ call.op = "generate_summary"
    /\ ~IsBlank(call.text)
    /\ gs.state = "raised"
    /\ gs.result = Raised("APIError")
    /\ claude_calls = 1

----------------------------------------------------------------------------
(* C12 *)

----------------------------------------------------------------------------
(* C13 *)

\* C13: test_connection never raises; once it is over it has returned a boolean, which is
\* true exactly when the synthesis of the fixed phrase returned a byte sequence of length
\* greater than zero, and false both when it returned zero bytes and when it raised.
C13_TestConnection ==
    call.op = "test_connection" =>
        /\ call.text = TestPhrase
        /\ call.result.exc \in {"pending", "none"}
        /\ pc = "client_done" =>
             /\ call.result.exc = "none"
             /\ call.result.val \in BOOLEAN
             /\ call.result.val <=> (ga.state = "returned" /\ Len(ga.result.val) > 0)
             /\ (ga.state = "returned" /\ Len(ga.result.val) = 0) => ~call.result.val
             /\ ga.state = "raised" => ~call.result.val

\* test_connection has returned false after the synthesis raised
C13_Witness ==
    /\ call.op = "test_connection"
    /\ pc = "client_done"
    /\ ga.state = "raised"
    /\ ga.result.cause = "ApiError"
    /\ call.result = Returned(FALSE)

----------------------------------------------------------------------------
(* C14 *)

\* C14: generate_summary asks for target_minutes * 150 words, 450 for the 3 minutes of
\* the application; a summary it has returned carries a warning exactly when its word
\* count is below 315 or above 585, none at 315 and none at 585; and whenever the
\* service answers with a text, generate_summary returns that text stripped, warning or
\* not.
C14_LengthWarning ==
    /\ [](claude_thread.state # "idle" =>
            /\ claude_thread.arg.target_minutes = 3
            /\ claude_thread.arg.target_words = 450)
    /\ [](gs.state = "returned" =>
            LET word_count == WordCount(gs.result.val)
            IN  /\ gs.warning = "shorter" <=> word_count < 315
                /\ gs.warning = "longer" <=> word_count > 585
                /\ gs.warning = "none" <=> (315 <= word_count /\ word_count <= 585))
    /\ [][(/\ gs.state = "awaiting"
           /\ gs'.state # "awaiting"
           /\ claude_thread.result.exc = "none"
           /\ claude_thread.result.val # <<>>)
          => /\ gs'.state = "returned"
             /\ gs'.result = Returned(Strip(claude_thread.result.val[1]))]_vars

\* generate_summary has returned a summary of exactly 315 words, without a warning
C14_Witness ==
    /\ call.op = "generate_summary"
    /\ gs.state = "returned"
    /\ WordCount(gs.result.val) = 315
    /\ gs.warning = "none"

----------------------------------------------------------------------------
(* C15 *)

\* the pages page.extract_text() gave a non-empty string for, in page order
TextBearing(pages) == SelectSeq(pages, LAMBDA page_text : page_text # EmptyStr)

RECURSIVE JoinPages(_)
\* the page texts, a blank line between each two consecutive ones
JoinPages(pages) ==
    IF pages = <<>> THEN EmptyStr
    ELSE IF Len(pages) = 1 THEN pages[1]
    ELSE Concat(pages[1], Concat(ParagraphBreak, JoinPages(Tail(pages))))

\* the method whose text extract_pdf_text returns
ReturningMethod ==
    IF extraction.secondary_calls = 0 THEN extraction.primary ELSE extraction.secondary

\* C15: when the primary method gets through a PDF with non-whitespace text on some page,
\* extract_pdf_text returns text; and every text it returns is the texts of the pages
\* with text (a non-empty page text), as the returning method read them, each once and
\* in page order, a blank line between consecutive ones, stripped of leading and trailing
\* whitespace.
C15_PageOrder ==
    /\ (ExtractionOver /\ ~MethodFailed(extraction.primary)) =>
         /\ extraction.secondary_calls = 0
         /\ extraction.result.exc = "none"
    /\ (ExtractionOver /\ extraction.result.exc = "none") =>
         LET text == extraction.result.val
         IN  /\ ~ReturningMethod.raises
             /\ text = Strip(JoinPages(TextBearing(ReturningMethod.pages)))
             /\ text # EmptyStr
             /\ ~IsSpace(text[1].c)
             /\ ~IsSpace(text[Len(text)].c)
             /\ pdf_text = text

\* a text of two different pages has been returned
C15_Witness ==
    /\ ExtractionOver
    /\ extraction.secondary_calls = 0
    /\ extraction.result.exc = "none"
    /\ Len(extraction.primary.pages) = 2
    /\ TextBearing(extraction.primary.pages) = extraction.primary.pages
    /\ ~IsBlank(extraction.primary.pages[1])
    /\ extraction.primary.pages[1] # extraction.primary.pages[2]

----------------------------------------------------------------------------
(* C16 *)

\* C16: when the primary method raised, whatever text it had gathered, extract_pdf_text
\* has gone through the secondary method once and returns either None, exactly when the
\* secondary method failed, or the stripped text of the secondary method's pages alone.
C16_PartialDiscarded ==
    (ExtractionOver /\ extraction.primary.raises) =>
        /\ extraction.secondary_calls = 1
        /\ extraction.result = NoneValue <=> MethodFailed(extraction.secondary)
        /\ \/ extraction.result = NoneValue
           \/ /\ extraction.result =
                     Returned(Strip(JoinPages(TextBearing(extraction.secondary.pages))))
              /\ pdf_text = extraction.result.val

\* the primary method raised after gathering text, and what is returned is the secondary
\* method's text, which is not what the pages of both would give
C16_Witness ==
    /\ ExtractionOver
    /\ extraction.primary.raises
    /\ Strip(AccumulateText(EmptyStr, extraction.primary.pages)) # EmptyStr
    /\ extraction.result.exc = "none"
    /\ extraction.result.val #
           Strip(AccumulateText(EmptyStr,
                                extraction.primary.pages \o extraction.secondary.pages))

====
